---------------------------- MODULE Spec2Model ----------------------------
(***************************************************************************)
(* Model of python/vision_server.py: a TCP listener that serves one client *)
(* at a time; each session reads length-prefixed compressed images,        *)
(* classifies them for red and answers each with a length-prefixed command *)
(* token.                                                                  *)
(*                                                                         *)
(* Bytes are integers 0..255, byte strings and Python strings are          *)
(* sequences (of bytes, of code points).  The peer of a connection is a    *)
(* byte string it sends (stream) and whether it closes afterwards          *)
(* (peer_closes); recv(n) returns any 1..n of the bytes not yet consumed,  *)
(* b"" once the peer has closed and nothing is left, and blocks otherwise. *)
(***************************************************************************)
EXTENDS Integers, Sequences, FiniteSets, TLC

\* ------------------------------------------------------------------ bounds
\* messages the peer sends on one connection (the last one possibly cut short)
MaxMsgs == 2
\* connections the listener accepts in one run
MaxConns == 2
\* pixels of the largest mask the ratio comparison is tried on
MaxMaskSize == 100

\* --------------------------------------------------------- small utilities
Min(a, b) == IF a < b THEN a ELSE b
Max(a, b) == IF a > b THEN a ELSE b

\* b"".join(chunks)
RECURSIVE Join(_)
Join(chunks) ==
    IF chunks = << >> THEN << >> ELSE Head(chunks) \o Join(Tail(chunks))

\* ------------------------------------------------------ program constants
\* "idle" and "movered" as code points
COMMAND_IDLE == <<105, 100, 108, 101>>
COMMAND_MOVE_RED == <<109, 111, 118, 101, 114, 101, 100>>

\* VisionServerConfig.min_red_area as a fraction num/den; 0.005 is the default
DefaultMinRedArea == [num |-> 5, den |-> 1000]
HalfMinRedArea == [num |-> 1, den |-> 2]
Thresholds == {DefaultMinRedArea, HalfMinRedArea}

\* ------------------------------------------------------------ struct, str
\* struct.pack("<I", n): 4 bytes, least significant first
Pack(n) ==
    << n % 256, (n \div 256) % 256, (n \div 65536) % 256, (n \div 16777216) % 256 >>

\* struct.unpack("<I", b) for a 4-byte b
Unpack(b) == b[1] + 256 * b[2] + 65536 * b[3] + 16777216 * b[4]

\* one code point as UTF-8
Utf8Char(c) ==
    IF c < 128 THEN <<c>>
    ELSE IF c < 2048 THEN <<192 + (c \div 64), 128 + (c % 64)>>
    ELSE <<224 + (c \div 4096), 128 + ((c \div 64) % 64), 128 + (c % 64)>>

\* str.encode("utf-8")
RECURSIVE Utf8Encode(_)
Utf8Encode(s) ==
    IF s = << >> THEN << >> ELSE Utf8Char(Head(s)) \o Utf8Encode(Tail(s))

\* the buffer send_command hands to sendall: header + payload
SendBufferLenPlusOne(command) ==
    Pack(Len(Utf8Encode(command)) + 1) \o Utf8Encode(command)

SendBufferWithTerminator(command) ==
    Pack(Len(Utf8Encode(command)) + 1) \o Utf8Encode(command) \o <<0>>

SendBuffer(command) ==
    Pack(Len(Utf8Encode(command))) \o Utf8Encode(command)

\* COMMAND_MOVE_RED if has_red else COMMAND_IDLE
CommandForSwapped(has_red) == IF has_red THEN COMMAND_IDLE ELSE COMMAND_MOVE_RED

CommandFor(has_red) == IF has_red THEN COMMAND_MOVE_RED ELSE COMMAND_IDLE

\* ------------------------------------------------------------ image codec
\* cv2.imdecode stands behind decode_image.  The model's compressed format is
\* a run-length image: <<ImageMagic, width, height, colour, run, colour, run,
\* ...>>; it decodes when the magic matches, the grid is not empty, every
\* colour is in the palette and the runs cover exactly width*height pixels.
ImageMagic == 137

\* palette entries as BGR pixels: black, red, green, dark red
Palette == << <<0, 0, 0>>, <<0, 0, 255>>, <<0, 255, 0>>, <<0, 0, 60>> >>

NoImage == [width |-> 0, height |-> 0, runs |-> << >>]

RECURSIVE RunsOf(_)
RunsOf(bytes) ==
    IF Len(bytes) < 2 THEN << >>
    ELSE <<[bgr |-> Palette[bytes[1] + 1], n |-> bytes[2]]>>
             \o RunsOf(SubSeq(bytes, 3, Len(bytes)))

RECURSIVE RunTotal(_)
RunTotal(runs) ==
    IF runs = << >> THEN 0 ELSE Head(runs).n + RunTotal(Tail(runs))

\* does cv2.imdecode return an image (not None) for these bytes
Decodable(data) ==
    /\ Len(data) >= 5
    /\ data[1] = ImageMagic
    /\ data[2] * data[3] > 0
    /\ (Len(data) - 3) % 2 = 0
    /\ \A i \in 4..Len(data) :
          IF (i - 4) % 2 = 0 THEN data[i] < Len(Palette) ELSE data[i] > 0
    /\ RunTotal(RunsOf(SubSeq(data, 4, Len(data)))) = data[2] * data[3]

\* cv2.imdecode(data, cv2.IMREAD_COLOR): the BGR grid, kept as runs of pixels
ImDecode(data) ==
    IF Decodable(data)
    THEN [width |-> data[2], height |-> data[3],
          runs |-> RunsOf(SubSeq(data, 4, Len(data)))]
    ELSE NoImage

\* what a failed decode raises: decode_image raises ValueError when
\* cv2.imdecode returns None; on an empty buffer cv2.imdecode returns None in
\* some OpenCV builds and raises cv2.error itself in others
DecodeFailures(data) ==
    IF data = << >> THEN {"ValueError", "cv2.error"} ELSE {"ValueError"}

\* the payloads a peer sends
AllRed10x10 == <<ImageMagic, 10, 10, 1, 100>>
AllBlack10x10 == <<ImageMagic, 10, 10, 0, 100>>
Mixed2x2 == <<ImageMagic, 2, 2, 1, 1, 0, 3>>
CorruptPayload == <<66, 77>>
EmptyPayload == << >>
Payloads == {AllRed10x10, AllBlack10x10, Mixed2x2, CorruptPayload, EmptyPayload}

\* ---------------------------------------------------------- red detector
\* nearest integer of a / b for a >= 0, b > 0
RoundDiv(a, b) == (2 * a + b) \div (2 * b)

\* cv2.cvtColor(frame, cv2.COLOR_BGR2HSV) on one 8-bit pixel (hue on 0..180)
BGR2HSV(p) ==
    LET b == p[1]
        g == p[2]
        r == p[3]
        v == Max(b, Max(g, r))
        m == Min(b, Min(g, r))
        d == v - m
        s == IF v = 0 THEN 0 ELSE RoundDiv(255 * d, v)
        h360 == IF d = 0 THEN 0
                ELSE IF v = r THEN (IF g >= b THEN RoundDiv(60 * (g - b), d)
                                    ELSE 360 - RoundDiv(60 * (b - g), d))
                ELSE IF v = g THEN (IF b >= r THEN 120 + RoundDiv(60 * (b - r), d)
                                    ELSE 120 - RoundDiv(60 * (r - b), d))
                ELSE (IF r >= g THEN 240 + RoundDiv(60 * (r - g), d)
                      ELSE 240 - RoundDiv(60 * (g - r), d))
    IN  << (h360 \div 2) % 180, s, v >>

\* cv2.inRange(hsv, lower, upper) on one pixel: 255 inside, 0 outside
InRange(hsv, lower, upper) ==
    IF \A c \in 1..3 : lower[c] <= hsv[c] /\ hsv[c] <= upper[c] THEN 255 ELSE 0

lower_red_1 == <<0, 120, 70>>
upper_red_1 == <<10, 255, 255>>
lower_red_2 == <<170, 120, 70>>
upper_red_2 == <<180, 255, 255>>

\* mask1 | mask2 for one pixel
RedMaskPixel(bgr) ==
    LET hsv == BGR2HSV(bgr)
    IN  IF InRange(hsv, lower_red_1, upper_red_1) = 255
           \/ InRange(hsv, lower_red_2, upper_red_2) = 255
        THEN 255 ELSE 0

\* number of pixels of the frame that cv2.bitwise_or(mask1, mask2) sets
RECURSIVE RawMaskCount(_)
RawMaskCount(runs) ==
    IF runs = << >> THEN 0
    ELSE (IF RedMaskPixel(Head(runs).bgr) = 255 THEN Head(runs).n ELSE 0)
           + RawMaskCount(Tail(runs))

\* GaussianBlur 9x9 then MORPH_OPEN 5x5: a uniform mask stays as it is; on a
\* mixed mask the number of nonzero pixels left depends on the geometry, so
\* every count is possible
SmoothedCounts(frame) ==
    LET size == frame.width * frame.height
        raw == RawMaskCount(frame.runs)
    IN  IF raw = 0 THEN {0} ELSE IF raw = size THEN {size} ELSE 0..size

\* red_ratio >= min_red_ratio, red_ratio = count_nonzero(mask) / mask.size
RatioReachedStrict(mask, min_red_ratio) ==
    mask.nonzero * min_red_ratio.den > min_red_ratio.num * mask.size

RatioReached(mask, min_red_ratio) ==
    mask.nonzero * min_red_ratio.den >= min_red_ratio.num * mask.size

\* ----------------------------------------------------------------- peers
\* the prefix and payload of one message as the peer puts it on the wire
Message(p) == Pack(Len(p)) \o p

RECURSIVE Concat(_)
Concat(msgs) ==
    IF msgs = << >> THEN << >> ELSE Message(Head(msgs)) \o Concat(Tail(msgs))

\* what a peer may send on one connection: up to MaxMsgs messages, cut
\* anywhere (a peer that stops in the middle of a message)
Streams ==
    LET full == { Concat(m) : m \in UNION { [1..n -> Payloads] : n \in 0..MaxMsgs } }
    IN  UNION { { SubSeq(e, 1, k) : k \in 0..Len(e) } : e \in full }

\* the wire format applied to a whole byte string: the payloads of the
\* messages that are complete in it, in order
RECURSIVE FramedPayloads(_)
FramedPayloads(bytes) ==
    IF Len(bytes) < 4 THEN << >>
    ELSE LET n == Unpack(SubSeq(bytes, 1, 4))
         IN  IF Len(bytes) < 4 + n THEN << >>
             ELSE <<SubSeq(bytes, 5, 4 + n)>>
                    \o FramedPayloads(SubSeq(bytes, 5 + n, Len(bytes)))

\* number of bytes the first k complete messages of a byte string take
RECURSIVE FramedLength(_, _)
FramedLength(bytes, k) ==
    IF k = 0 \/ Len(bytes) < 4 THEN 0
    ELSE LET n == Unpack(SubSeq(bytes, 1, 4))
         IN  4 + n + FramedLength(SubSeq(bytes, 5 + n, Len(bytes)), k - 1)

\* ----------------------------------------------------------------- state
VARIABLES
    config,          \* VisionServerConfig: display, min_red_area
    lpc,             \* serve_forever: "accept", "session" (in handle_client), "exited"
    server_socket,   \* "listening" or "closed"
    client_socket,   \* "none", "open" or "closed"
    windows,         \* is a cv2 window open
    interrupted,     \* has KeyboardInterrupt been delivered
    conns,           \* connections accepted so far
    failed_sessions, \* sessions that ended in the except clause so far
    log,             \* lines printed since the last accept
    stream,          \* bytes the peer of this connection sends
    peer_closes,     \* does the peer close after sending them
    pos,             \* bytes of stream the server has consumed
    pc,              \* handle_client: "recv_len", "read_exact", "decode",
                     \* "detect", "display", "send", "returned", "raised"
    exc,             \* exception that left handle_client, "None" if none
    length_bytes, frame_length, chunks, bytes_recd, payload,
    frame, mask, has_red, command,
    wire_out,        \* buffers written to the client socket in this session
    msgs_started,    \* messages of which a byte has been read in this session
    decode_calls,    \* calls of decode_image in this session
    decoded,         \* frames decode_image returned in this session
    has_red_log,     \* the detector's boolean of each frame of this session
    twin             \* the same connection served with the display disabled

listenerVars == <<config, lpc, server_socket, client_socket, windows,
                  interrupted, conns, failed_sessions, log>>
peerVars == <<stream, peer_closes, pos>>
localVars == <<length_bytes, frame_length, chunks, bytes_recd, payload,
               frame, mask, has_red, command>>
historyVars == <<wire_out, msgs_started, decode_calls, decoded, has_red_log>>
vars == <<listenerVars, peerVars, pc, exc, localVars, historyVars, twin>>

NoMask == [size |-> 0, nonzero |-> 0]

\* a printed line: its fixed text and the value formatted into it
Line(text) == <<text, "">>
\* print(f"Client error: {exc}")
ErrorLine(e) == <<"Client error", e>>

\* ------------------------------------------------------------------ twin
\* twin is a second run of handle_client on the same connection, for a
\* server whose display is disabled: it meets the same peer, the same
\* transport and the same library outcomes as the run in the variables above
\* and takes each of its steps together with that run.
TwinAccepted ==
    [pc |-> "recv_len", exc |-> "None", client_socket |-> "open", pos |-> 0,
     length_bytes |-> << >>, frame_length |-> 0, chunks |-> << >>,
     bytes_recd |-> 0, payload |-> << >>, frame |-> NoImage, mask |-> NoMask,
     has_red |-> FALSE, command |-> << >>, wire_out |-> << >>]

NoTwin == [TwinAccepted EXCEPT !.pc = "returned", !.client_socket = "none"]

TwinRaises(t, e) ==
    [t EXCEPT !.pc = "raised", !.exc = e, !.client_socket = "closed"]

TwinReturns(t) ==
    [t EXCEPT !.pc = "returned", !.exc = "None", !.client_socket = "closed"]

\* what recv(want) returns to the twin when the transport hands over n bytes
\* at a time: b"" at the end of the stream
TwinRecv(t, want, n) ==
    SubSeq(stream, t.pos + 1,
           t.pos + Min(Min(want, Len(stream) - t.pos), Max(n, 1)))

\* lines 107-111
TwinRecvLength(t, n) ==
    LET got == TwinRecv(t, 4, n)
    IN  IF got = << >> THEN [TwinReturns(t) EXCEPT !.length_bytes = << >>]
        ELSE IF Len(got) < 4
        THEN [TwinRaises(t, "struct.error") EXCEPT
                 !.length_bytes = got, !.pos = @ + Len(got)]
        ELSE [t EXCEPT !.length_bytes = got,
                       !.pos = @ + 4,
                       !.frame_length = Unpack(got),
                       !.chunks = << >>,
                       !.bytes_recd = 0,
                       !.payload = IF Unpack(got) = 0 THEN << >> ELSE @,
                       !.pc = IF Unpack(got) = 0 THEN "decode" ELSE "read_exact"]

\* one pass of the loop of read_exact
TwinReadExact(t, n) ==
    LET got == TwinRecv(t, t.frame_length - t.bytes_recd, n)
        recd == t.bytes_recd + Len(got)
    IN  IF got = << >>
        THEN [TwinRaises(t, "ConnectionError") EXCEPT
                 !.chunks = << >>, !.bytes_recd = 0]
        ELSE IF recd < t.frame_length
        THEN [t EXCEPT !.pos = @ + Len(got), !.bytes_recd = recd,
                       !.chunks = Append(@, got)]
        ELSE [t EXCEPT !.pos = @ + Len(got), !.bytes_recd = recd,
                       !.payload = Join(Append(t.chunks, got)),
                       !.chunks = << >>,
                       !.pc = "decode"]

\* line 112; e is what the library raises if it raises
TwinDecodeImage(t, e) ==
    IF ImDecode(t.payload) = NoImage
    THEN TwinRaises(t, IF e \in DecodeFailures(t.payload) THEN e ELSE "ValueError")
    ELSE [t EXCEPT !.frame = ImDecode(t.payload), !.pc = "detect"]

\* lines 114-117 with config.display false; nz is the count the smoothing left
TwinDetectRed(t, min_red_area, nz) ==
    LET m == [size |-> t.frame.width * t.frame.height, nonzero |-> nz]
    IN  [t EXCEPT !.mask = m,
                  !.has_red = RatioReached(m, min_red_area),
                  !.command = CommandFor(RatioReached(m, min_red_area)),
                  !.pc = "send"]

\* line 120; ok is whether sendall succeeds
TwinSendCommand(t, ok) ==
    IF ok
    THEN [t EXCEPT !.wire_out = Append(@, SendBuffer(t.command)), !.pc = "recv_len"]
    ELSE TwinRaises(t, "OSError")

Init ==
    /\ config \in [display : BOOLEAN, min_red_area : Thresholds]
    /\ lpc = "accept"
    /\ server_socket = "listening"
    /\ client_socket = "none"
    /\ windows = FALSE
    /\ interrupted = FALSE
    /\ conns = 0
    /\ failed_sessions = 0
    /\ log = <<Line("Vision server listening")>>
    /\ stream = << >>
    /\ peer_closes = FALSE
    /\ pos = 0
    /\ pc = "returned"
    /\ exc = "None"
    /\ length_bytes = << >>
    /\ frame_length = 0
    /\ chunks = << >>
    /\ bytes_recd = 0
    /\ payload = << >>
    /\ frame = NoImage
    /\ mask = NoMask
    /\ has_red = FALSE
    /\ command = << >>
    /\ wire_out = << >>
    /\ msgs_started = 0
    /\ decode_calls = 0
    /\ decoded = 0
    /\ has_red_log = << >>
    /\ twin = NoTwin

\* ------------------------------------------------------------ serve_forever
\* accept() returns a connection; handle_client starts with fresh locals
AcceptWhileServing ==
    /\ lpc \in {"accept", "session"}
    /\ conns < MaxConns
    /\ \E s \in Streams, c \in BOOLEAN :
          /\ stream' = s
          /\ peer_closes' = c
    /\ pos' = 0
    /\ lpc' = "session"
    /\ client_socket' = "open"
    /\ conns' = conns + 1
    /\ log' = <<Line("Client connected")>>
    /\ pc' = "recv_len"
    /\ exc' = "None"
    /\ length_bytes' = << >>
    /\ frame_length' = 0
    /\ chunks' = << >>
    /\ bytes_recd' = 0
    /\ payload' = << >>
    /\ frame' = NoImage
    /\ mask' = NoMask
    /\ has_red' = FALSE
    /\ command' = << >>
    /\ wire_out' = << >>
    /\ msgs_started' = 0
    /\ decode_calls' = 0
    /\ decoded' = 0
    /\ has_red_log' = << >>
    /\ UNCHANGED <<config, server_socket, windows, interrupted, failed_sessions>>

Accept ==
    /\ lpc = "accept"
    /\ conns < MaxConns
    /\ \E s \in Streams, c \in BOOLEAN :
          /\ stream' = s
          /\ peer_closes' = c
    /\ pos' = 0
    /\ lpc' = "session"
    /\ client_socket' = "open"
    /\ conns' = conns + 1
    /\ log' = <<Line("Client connected")>>
    /\ pc' = "recv_len"
    /\ exc' = "None"
    /\ length_bytes' = << >>
    /\ frame_length' = 0
    /\ chunks' = << >>
    /\ bytes_recd' = 0
    /\ payload' = << >>
    /\ frame' = NoImage
    /\ mask' = NoMask
    /\ has_red' = FALSE
    /\ command' = << >>
    /\ wire_out' = << >>
    /\ msgs_started' = 0
    /\ decode_calls' = 0
    /\ decoded' = 0
    /\ has_red_log' = << >>
    /\ UNCHANGED <<config, server_socket, windows, interrupted, failed_sessions>>

\* the state of a connection and of handle_client's frame once both are gone
ConnectionGone ==
    /\ stream' = << >>
    /\ peer_closes' = FALSE
    /\ pos' = 0
    /\ length_bytes' = << >>
    /\ frame_length' = 0
    /\ chunks' = << >>
    /\ bytes_recd' = 0
    /\ payload' = << >>
    /\ frame' = NoImage
    /\ mask' = NoMask
    /\ has_red' = FALSE
    /\ command' = << >>
    /\ wire_out' = << >>
    /\ msgs_started' = 0
    /\ decode_calls' = 0
    /\ decoded' = 0
    /\ has_red_log' = << >>

\* handle_client is over: the except clause prints the exception, if one left
\* it, the finally clause closes the socket and prints, and the loop goes back
\* to accept
EndSessionUncaught ==
    /\ lpc = "session"
    /\ pc \in {"returned", "raised"}
    /\ log' = log \o <<Line("Client disconnected")>>
    /\ client_socket' = "closed"
    /\ lpc' = IF exc # "None" THEN "exited" ELSE "accept"
    /\ server_socket' = IF exc # "None" THEN "closed" ELSE server_socket
    /\ failed_sessions' = failed_sessions + (IF exc # "None" THEN 1 ELSE 0)
    /\ ConnectionGone
    /\ UNCHANGED <<config, windows, interrupted, conns, pc, exc>>

EndSession ==
    /\ lpc = "session"
    /\ pc \in {"returned", "raised"}
    /\ log' = log \o (IF exc # "None" THEN <<ErrorLine(exc)>> ELSE << >>)
                  \o <<Line("Client disconnected")>>
    /\ client_socket' = "closed"
    /\ lpc' = "accept"
    /\ failed_sessions' = failed_sessions + (IF exc # "None" THEN 1 ELSE 0)
    /\ ConnectionGone
    /\ UNCHANGED <<config, server_socket, windows, interrupted, conns, pc, exc>>

\* the ways a statement of handle_client ends.  An exception e leaves
\* handle_client, whose with block closes the socket on the way out:
SessionRaises(e) ==
    /\ pc' = "raised"
    /\ exc' = e
    /\ client_socket' = "closed"
    /\ UNCHANGED <<config, lpc, server_socket, interrupted, conns,
                   failed_sessions, log>>

\* break leaves the loop and the with block, handle_client returns:
SessionReturns ==
    /\ pc' = "returned"
    /\ exc' = "None"
    /\ client_socket' = "closed"
    /\ UNCHANGED <<config, lpc, server_socket, interrupted, conns,
                   failed_sessions, log>>

\* or handle_client goes on to its next statement:
SessionGoesTo(next) ==
    /\ pc' = next
    /\ UNCHANGED <<exc, config, lpc, server_socket, client_socket,
                   interrupted, conns, failed_sessions, log>>

\* ------------------------------------------------------------ handle_client
\* length_bytes = client_socket.recv(4); break on b""; struct.unpack; and the
\* entry of read_exact, which returns b"" at once for a length of 0
RecvLengthEofRaises ==
    /\ lpc = "session"
    /\ pc = "recv_len"
    /\ \/ /\ pos = Len(stream)
          /\ peer_closes
          /\ length_bytes' = << >>
          /\ SessionRaises("ConnectionError")
          /\ UNCHANGED <<peerVars, frame_length, chunks, bytes_recd, payload,
                         frame, mask, has_red, command, historyVars, windows>>
       \/ /\ pos < Len(stream)
          /\ \E n \in 1..Min(4, Len(stream) - pos) :
                /\ length_bytes' = SubSeq(stream, pos + 1, pos + n)
                /\ pos' = pos + n
                /\ msgs_started' = msgs_started + 1
                /\ IF n < 4
                   THEN /\ SessionRaises("struct.error")
                        /\ UNCHANGED <<frame_length, chunks, bytes_recd, payload>>
                   ELSE /\ frame_length' = Unpack(length_bytes')
                        /\ chunks' = << >>
                        /\ bytes_recd' = 0
                        /\ IF frame_length' = 0
                           THEN payload' = << >> /\ SessionGoesTo("decode")
                           ELSE UNCHANGED payload /\ SessionGoesTo("read_exact")
          /\ UNCHANGED <<stream, peer_closes, frame, mask, has_red, command,
                         wire_out, decode_calls, decoded, has_red_log, windows>>

RecvLength ==
    /\ lpc = "session"
    /\ pc = "recv_len"
    /\ \/ /\ pos = Len(stream)
          /\ peer_closes
          /\ length_bytes' = << >>
          /\ SessionReturns
          /\ UNCHANGED <<peerVars, frame_length, chunks, bytes_recd, payload,
                         frame, mask, has_red, command, historyVars, windows>>
       \/ /\ pos < Len(stream)
          /\ \E n \in 1..Min(4, Len(stream) - pos) :
                /\ length_bytes' = SubSeq(stream, pos + 1, pos + n)
                /\ pos' = pos + n
                /\ msgs_started' = msgs_started + 1
                /\ IF n < 4
                   THEN /\ SessionRaises("struct.error")
                        /\ UNCHANGED <<frame_length, chunks, bytes_recd, payload>>
                   ELSE /\ frame_length' = Unpack(length_bytes')
                        /\ chunks' = << >>
                        /\ bytes_recd' = 0
                        /\ IF frame_length' = 0
                           THEN payload' = << >> /\ SessionGoesTo("decode")
                           ELSE UNCHANGED payload /\ SessionGoesTo("read_exact")
          /\ UNCHANGED <<stream, peer_closes, frame, mask, has_red, command,
                         wire_out, decode_calls, decoded, has_red_log, windows>>

\* one pass of the loop of read_exact: recv(length - bytes_recd), raise on
\* b"", append; the loop ends and the joined chunks become payload once
\* bytes_recd reaches length
ReadExactEofReturns ==
    /\ lpc = "session"
    /\ pc = "read_exact"
    /\ \/ /\ pos = Len(stream)
          /\ peer_closes
          /\ payload' = Join(chunks)
          /\ chunks' = << >>
          /\ SessionGoesTo("decode")
          /\ UNCHANGED <<peerVars, bytes_recd>>
       \/ /\ pos < Len(stream)
          /\ \E n \in 1..Min(frame_length - bytes_recd, Len(stream) - pos) :
                /\ pos' = pos + n
                /\ bytes_recd' = bytes_recd + n
                /\ IF bytes_recd' < frame_length
                   THEN /\ chunks' = Append(chunks, SubSeq(stream, pos + 1, pos + n))
                        /\ UNCHANGED payload
                   ELSE /\ payload' = Join(Append(chunks, SubSeq(stream, pos + 1, pos + n)))
                        /\ chunks' = << >>
                /\ SessionGoesTo(IF bytes_recd' < frame_length
                                 THEN "read_exact" ELSE "decode")
          /\ UNCHANGED <<stream, peer_closes>>
    /\ UNCHANGED <<length_bytes, frame_length, frame, mask, has_red, command,
                   historyVars, windows>>

ReadExactFixedBuffer ==
    /\ lpc = "session"
    /\ pc = "read_exact"
    /\ \/ /\ pos = Len(stream)
          /\ peer_closes
          /\ SessionRaises("ConnectionError")
          /\ chunks' = << >>
          /\ bytes_recd' = 0
          /\ UNCHANGED <<peerVars, payload>>
       \/ /\ pos < Len(stream)
          /\ \E n \in 1..(Len(stream) - pos) :
                /\ pos' = pos + n
                /\ bytes_recd' = bytes_recd + n
                /\ IF bytes_recd' < frame_length
                   THEN /\ chunks' = Append(chunks, SubSeq(stream, pos + 1, pos + n))
                        /\ UNCHANGED payload
                   ELSE /\ payload' = Join(Append(chunks, SubSeq(stream, pos + 1, pos + n)))
                        /\ chunks' = << >>
                /\ SessionGoesTo(IF bytes_recd' < frame_length
                                 THEN "read_exact" ELSE "decode")
          /\ UNCHANGED <<stream, peer_closes>>
    /\ UNCHANGED <<length_bytes, frame_length, frame, mask, has_red, command,
                   historyVars, windows>>

ReadExact ==
    /\ lpc = "session"
    /\ pc = "read_exact"
    /\ \/ /\ pos = Len(stream)
          /\ peer_closes
          /\ SessionRaises("ConnectionError")
          /\ chunks' = << >>
          /\ bytes_recd' = 0
          /\ UNCHANGED <<peerVars, payload>>
       \/ /\ pos < Len(stream)
          /\ \E n \in 1..Min(frame_length - bytes_recd, Len(stream) - pos) :
                /\ pos' = pos + n
                /\ bytes_recd' = bytes_recd + n
                /\ IF bytes_recd' < frame_length
                   THEN /\ chunks' = Append(chunks, SubSeq(stream, pos + 1, pos + n))
                        /\ UNCHANGED payload
                   ELSE /\ payload' = Join(Append(chunks, SubSeq(stream, pos + 1, pos + n)))
                        /\ chunks' = << >>
                /\ SessionGoesTo(IF bytes_recd' < frame_length
                                 THEN "read_exact" ELSE "decode")
          /\ UNCHANGED <<stream, peer_closes>>
    /\ UNCHANGED <<length_bytes, frame_length, frame, mask, has_red, command,
                   historyVars, windows>>

\* frame = decode_image(payload): raises when cv2.imdecode gives no image
DecodeImageSkipsBadFrame ==
    /\ lpc = "session"
    /\ pc = "decode"
    /\ decode_calls' = decode_calls + 1
    /\ IF ImDecode(payload) = NoImage
       THEN /\ SessionGoesTo("recv_len")
            /\ UNCHANGED <<frame, decoded>>
       ELSE /\ frame' = ImDecode(payload)
            /\ decoded' = decoded + 1
            /\ SessionGoesTo("detect")
    /\ UNCHANGED <<windows, peerVars, length_bytes, frame_length, chunks, bytes_recd,
                   payload, mask, has_red, command, wire_out, msgs_started,
                   has_red_log>>

DecodeImageUnchecked ==
    /\ lpc = "session"
    /\ pc = "decode"
    /\ decode_calls' = decode_calls + 1
    /\ frame' = ImDecode(payload)
    /\ decoded' = decoded + 1
    /\ SessionGoesTo("detect")
    /\ UNCHANGED <<windows, peerVars, length_bytes, frame_length, chunks, bytes_recd,
                   payload, mask, has_red, command, wire_out, msgs_started,
                   has_red_log>>

DecodeImage ==
    /\ lpc = "session"
    /\ pc = "decode"
    /\ decode_calls' = decode_calls + 1
    /\ IF ImDecode(payload) = NoImage
       THEN /\ \E e \in DecodeFailures(payload) : SessionRaises(e)
            /\ UNCHANGED <<frame, decoded>>
       ELSE /\ frame' = ImDecode(payload)
            /\ decoded' = decoded + 1
            /\ SessionGoesTo("detect")
    /\ UNCHANGED <<windows, peerVars, length_bytes, frame_length, chunks, bytes_recd,
                   payload, mask, has_red, command, wire_out, msgs_started,
                   has_red_log>>

\* has_red, mask = detect_red_regions(frame, min_red_area); command = ...
DetectRed ==
    /\ lpc = "session"
    /\ pc = "detect"
    /\ \E nz \in SmoothedCounts(frame) :
          mask' = [size |-> frame.width * frame.height, nonzero |-> nz]
    /\ has_red' = RatioReached(mask', config.min_red_area)
    /\ command' = CommandFor(has_red')
    /\ has_red_log' = Append(has_red_log, has_red')
    /\ SessionGoesTo(IF config.display THEN "display" ELSE "send")
    /\ UNCHANGED <<peerVars, length_bytes, frame_length, chunks, bytes_recd,
                   payload, frame, wire_out, msgs_started, decode_calls,
                   decoded, windows>>

\* if self.config.display: self.display_debug(frame, mask, command); the cv2
\* calls either show the window or raise cv2.error (no display available)
DisplayDebugQuitsOnKey ==
    /\ lpc = "session"
    /\ pc = "display"
    /\ \/ /\ windows' = TRUE
          /\ SessionGoesTo("send")
       \/ /\ windows' = TRUE
          /\ SessionReturns
       \/ /\ SessionRaises("cv2.error")
          /\ UNCHANGED windows
    /\ UNCHANGED <<peerVars, localVars, historyVars>>

DisplayDebug ==
    /\ lpc = "session"
    /\ pc = "display"
    /\ \/ /\ windows' = TRUE
          /\ SessionGoesTo("send")
       \/ /\ SessionRaises("cv2.error")
          /\ UNCHANGED windows
    /\ UNCHANGED <<peerVars, localVars, historyVars>>

\* self.send_command(client_socket, command): sendall either transmits the
\* whole buffer or raises OSError (connection reset, broken pipe)
SendCommandTwice ==
    /\ lpc = "session"
    /\ pc = "send"
    /\ \/ /\ wire_out' = wire_out \o <<SendBuffer(command), SendBuffer(command)>>
          /\ SessionGoesTo("recv_len")
       \/ /\ SessionRaises("OSError")
          /\ UNCHANGED wire_out
    /\ UNCHANGED <<windows, peerVars, localVars, msgs_started, decode_calls, decoded,
                   has_red_log>>

SendCommand ==
    /\ lpc = "session"
    /\ pc = "send"
    /\ \/ /\ wire_out' = Append(wire_out, SendBuffer(command))
          /\ SessionGoesTo("recv_len")
       \/ /\ SessionRaises("OSError")
          /\ UNCHANGED wire_out
    /\ UNCHANGED <<windows, peerVars, localVars, msgs_started, decode_calls, decoded,
                   has_red_log>>

\* --------------------------------------------------------------------- main
\* KeyboardInterrupt while serve_forever runs: it is not an Exception, so the
\* except clause lets it pass; the finally clause closes the client socket of
\* a running session, the with block closes the listening socket, main prints
\* and its finally clause calls cv2.destroyAllWindows()
InterruptCaughtAsError ==
    /\ lpc \in {"accept", "session"}
    /\ interrupted' = TRUE
    /\ IF lpc = "session"
       THEN /\ pc' = "raised"
            /\ exc' = "KeyboardInterrupt"
            /\ client_socket' = "closed"
            /\ UNCHANGED <<lpc, server_socket, windows, log>>
       ELSE /\ lpc' = "exited"
            /\ server_socket' = "closed"
            /\ windows' = FALSE
            /\ log' = log \o <<Line("Stopping vision server...")>>
            /\ UNCHANGED <<pc, exc, client_socket>>
    /\ UNCHANGED <<config, conns, failed_sessions, peerVars, localVars,
                   historyVars>>

Interrupt ==
    /\ lpc \in {"accept", "session"}
    /\ interrupted' = TRUE
    /\ lpc' = "exited"
    /\ server_socket' = "closed"
    /\ client_socket' = IF lpc = "session" THEN "closed" ELSE client_socket
    /\ windows' = FALSE
    /\ log' = log \o (IF lpc = "session" THEN <<Line("Client disconnected")>>
                      ELSE << >>)
                  \o <<Line("Stopping vision server...")>>
    /\ UNCHANGED <<config, conns, failed_sessions, peerVars, pc, exc,
                   localVars, historyVars>>

\* the twin takes the step of its own statement when the run takes that
\* step, with what the environment did there: the bytes recv returned, what
\* the decoder raised, the count the smoothing left, whether sendall
\* succeeded.  It waits while the run is in display_debug.
TwinFollows ==
    twin' = IF twin.pc # pc THEN twin
            ELSE CASE pc = "recv_len" -> TwinRecvLength(twin, pos' - pos)
                   [] pc = "read_exact" -> TwinReadExact(twin, pos' - pos)
                   [] pc = "decode" -> TwinDecodeImage(twin, exc')
                   [] pc = "detect" -> TwinDetectRed(twin, config.min_red_area,
                                                     mask'.nonzero)
                   [] pc = "send" -> TwinSendCommand(twin, pc' = "recv_len")
                   [] OTHER -> twin

Next ==
    \/ Accept /\ twin' = TwinAccepted
    \/ RecvLength /\ TwinFollows
    \/ ReadExact /\ TwinFollows
    \/ DecodeImage /\ TwinFollows
    \/ DetectRed /\ TwinFollows
    \/ DisplayDebug /\ TwinFollows
    \/ SendCommand /\ TwinFollows
    \/ EndSession /\ twin' = NoTwin
    \/ Interrupt /\ UNCHANGED twin

Spec == Init /\ [][Next]_vars

\* ------------------------------------------------------------ properties
ReadErrors == {"struct.error", "ConnectionError"}

\* the session is over and serve_forever has not yet handled its end
SessionOver == lpc = "session" /\ pc \in {"returned", "raised"}

\* the payload of a buffer written to the socket: what follows its prefix
WirePayload(buffer) == SubSeq(buffer, 5, Len(buffer))

\* C1: in every session the commands written never outnumber the frames
\* decoded, the frames decoded never outnumber the messages begun, and a
\* byte of message k+1 is read only after command k was written: no command
\* is unprompted and no frame gets two commands.
C1_CommandsFollowFrames ==
    /\ Len(wire_out) <= decoded
    /\ decoded <= msgs_started
    /\ msgs_started <= Len(wire_out) + 1

C1_Witness ==
    /\ lpc = "session"
    /\ pc = "recv_len"
    /\ Len(wire_out) = 2
    /\ decoded = 2

\* C2: unless the write itself fails, a session that is reading or over has
\* answered every frame it decoded, display enabled or not: nothing ends the
\* session between a successful decode and the send for that frame.
C2_DecodedFrameAnswered ==
    (/\ lpc = "session"
     /\ pc \in {"recv_len", "read_exact", "decode", "returned", "raised"}
     /\ exc # "OSError")
        => Len(wire_out) = decoded

\* C3: whatever the chunks recv returns, a message that the peer sends whole
\* is read whole: the read never fails on it, and the payload handed to the
\* decoder is the message's payload.
C3_ReadObtainsPayload ==
    /\ (lpc = "session" /\ pc = "raised" /\ exc \in ReadErrors)
          => msgs_started > Len(FramedPayloads(stream))
    /\ (lpc = "session" /\ pc = "decode")
          => /\ msgs_started <= Len(FramedPayloads(stream))
             /\ payload = FramedPayloads(stream)[msgs_started]

\* C4: when the peer has closed at a message boundary, the next step of the
\* session leaves handle_client without an exception and without a further
\* command, and serve_forever then prints no client error.
C4_CleanCloseEndsQuietly ==
    [][ /\ (/\ lpc = "session" /\ pc = "recv_len"
            /\ pos = Len(stream) /\ peer_closes
            /\ ~interrupted')
           => (pc' = "returned" /\ exc' = "None" /\ wire_out' = wire_out)
        /\ (lpc = "session" /\ pc = "returned" /\ ~interrupted')
           => (/\ lpc' = "accept"
               /\ log' = <<Line("Client connected"), Line("Client disconnected")>>)
      ]_vars

C4_Witness ==
    /\ SessionOver
    /\ pc = "returned"
    /\ peer_closes
    /\ Len(wire_out) >= 1

\* C5: a session that is over while the peer closed inside a message (after
\* 1 to 3 prefix bytes, or before the declared payload was complete) ended
\* with a read error, sent no command for that message and never called the
\* decoder on its part of the payload.
C5_TruncationIsAnError ==
    (/\ SessionOver
     /\ peer_closes
     /\ msgs_started > Len(FramedPayloads(stream)))
        => /\ pc = "raised"
           /\ exc \in ReadErrors
           /\ Len(wire_out) = msgs_started - 1
           /\ decode_calls = msgs_started - 1

C5_Witness ==
    /\ SessionOver
    /\ peer_closes
    /\ exc = "ConnectionError"
    /\ msgs_started = 2
    /\ pos = Len(stream)
    /\ Len(wire_out) = 1

\* C6: a failed session never stops the listener: only an interrupt closes
\* the listening socket or ends serve_forever; after a failed session the
\* cause is printed, the client socket is closed and the listener is back at
\* accept; and a session accepted after a failure starts as a first one does.
C6_FailureEndsOnlyTheSession ==
    /\ (lpc = "exited" \/ server_socket = "closed") => interrupted
    /\ (lpc = "accept" /\ pc = "raised")
          => /\ exc # "None"
             /\ client_socket = "closed"
             /\ failed_sessions >= 1
             /\ log = <<Line("Client connected"), ErrorLine(exc),
                        Line("Client disconnected")>>
    /\ (lpc = "session" /\ pc = "recv_len" /\ msgs_started = 0)
          => /\ exc = "None"
             /\ client_socket = "open"
             /\ pos = 0
             /\ wire_out = << >>
             /\ localVars = <<<< >>, 0, << >>, 0, << >>, NoImage, NoMask,
                              FALSE, << >>>>

C6_Witness ==
    /\ failed_sessions >= 1
    /\ lpc = "session"
    /\ pc = "recv_len"
    /\ Len(wire_out) >= 1

\* C7: once decode_image has failed on a payload, the session is over with
\* the decoder's exception: no command was sent for that payload, it was
\* decoded once, and the read position stays at the end of that message.
C7_DecodeFailureAbortsSession ==
    (decode_calls > decoded)
        => /\ pc = "raised"
           /\ exc \in DecodeFailures(payload)
           /\ decode_calls = decoded + 1
           /\ Len(wire_out) = decoded
           /\ msgs_started = decode_calls
           /\ pos = FramedLength(stream, msgs_started)

C7_Witness ==
    /\ SessionOver
    /\ exc = "ValueError"
    /\ pos < Len(stream)
    /\ LET rest == FramedPayloads(SubSeq(stream, pos + 1, Len(stream)))
       IN  rest # << >> /\ Decodable(rest[1])

\* C8: whatever the Visualize step does, the session goes on to send the
\* command of that frame.
C8_DisplayFailureTolerated ==
    [][ (lpc = "session" /\ pc = "display" /\ ~interrupted') => pc' = "send" ]_vars

\* C9: every buffer written carries "movered" when the detector's boolean of
\* its frame was true and "idle" when it was false, and nothing else.
C9_TokenMatchesDetector ==
    /\ Len(wire_out) <= Len(has_red_log)
    /\ \A k \in 1..Len(wire_out) :
          /\ WirePayload(wire_out[k]) \in {COMMAND_IDLE, COMMAND_MOVE_RED}
          /\ WirePayload(wire_out[k]) = COMMAND_MOVE_RED <=> has_red_log[k]
          /\ WirePayload(wire_out[k]) = COMMAND_IDLE <=> ~has_red_log[k]

C9_Witness ==
    /\ Len(wire_out) = 2
    /\ has_red_log[1] # has_red_log[2]

\* C10 as stated: the answer to a frame classified as red is the prefix 8
\* followed by "movered".
C10_PrefixEight ==
    \A k \in 1..Len(wire_out) :
        has_red_log[k]
           => wire_out[k] = <<8, 0, 0, 0, 109, 111, 118, 101, 114, 101, 100>>

\* C10: the all-red 10x10 image is classified as red at threshold 0.005, and
\* the answer to a frame classified as red is the little-endian prefix 7
\* followed by the 7 bytes of "movered".
C10_PrefixSeven ==
    /\ (/\ lpc = "session" /\ pc \in {"display", "send"}
        /\ frame = ImDecode(AllRed10x10)
        /\ config.min_red_area = DefaultMinRedArea)
          => has_red
    /\ \A k \in 1..Len(wire_out) :
          has_red_log[k]
             => wire_out[k] = <<7, 0, 0, 0, 109, 111, 118, 101, 114, 101, 100>>

C10_Witness ==
    /\ lpc = "session"
    /\ pc = "recv_len"
    /\ frame = ImDecode(AllRed10x10)
    /\ config.min_red_area = DefaultMinRedArea
    /\ has_red_log = <<TRUE>>
    /\ Len(wire_out) = 1

\* C11: every buffer written is one framed message: read back with the same
\* framing (4-byte little-endian prefix, then that many bytes) it gives the
\* token of its frame and nothing else, no byte is left over, and the prefix
\* of "idle" is 4.
C11_CommandFramingRoundTrip ==
    \A k \in 1..Len(wire_out) :
        LET token == IF has_red_log[k] THEN COMMAND_MOVE_RED ELSE COMMAND_IDLE
        IN  /\ FramedPayloads(wire_out[k]) = <<token>>
            /\ FramedLength(wire_out[k], 1) = Len(wire_out[k])
            /\ Len(wire_out[k]) = 4 + Len(token)
            /\ ~has_red_log[k] => SubSeq(wire_out[k], 1, 4) = <<4, 0, 0, 0>>

C11_Witness ==
    /\ lpc = "session"
    /\ pc = "recv_len"
    /\ frame = ImDecode(AllBlack10x10)
    /\ config.min_red_area = DefaultMinRedArea
    /\ Len(wire_out) = 1
    /\ wire_out[1] = <<4, 0, 0, 0, 105, 100, 108, 101>>

\* C12: a connection is accepted only when serve_forever is at accept, the
\* previous session is over and its socket is closed; a client socket is
\* open only while its session runs; and while a session waits on a silent
\* peer nothing is accepted.
C12_OneConnectionAtATime ==
    [][ /\ (conns' # conns)
           => /\ conns' = conns + 1
              /\ lpc = "accept"
              /\ pc \in {"returned", "raised"}
              /\ client_socket # "open"
              /\ server_socket = "listening"
        /\ (client_socket' = "open") => (lpc' = "session" /\ conns' >= 1)
        /\ (/\ lpc = "session" /\ pc = "recv_len"
            /\ pos = Len(stream) /\ ~peer_closes)
           => (conns' = conns /\ stream' = stream)
      ]_vars

C12_Witness ==
    /\ conns = 2
    /\ lpc = "session"
    /\ client_socket = "open"
    /\ pc = "recv_len"
    /\ pos = Len(stream)
    /\ ~peer_closes
    /\ Len(wire_out) >= 1

\* ------------------------------------------------- the ratio comparison
\* detect_red_regions from its last two lines on, for any mask the smoothing
\* may have left and any --min-red-area.  Fractions are exact here; with the
\* sizes and thresholds below two different fractions are far more than one
\* float rounding apart, so float(count) / size >= min_red_ratio agrees.
Masks == UNION { { [size |-> s, nonzero |-> n] : n \in 0..s } : s \in 1..MaxMaskSize }

PerMille(n) == [num |-> n, den |-> 1000]
RatioThresholds == { PerMille(n) : n \in {0, 5, 10, 20, 500, 1000, 1500} }

RatioInit ==
    /\ config \in [display : {FALSE}, min_red_area : RatioThresholds]
    /\ mask \in Masks
    /\ lpc = "session"
    /\ server_socket = "listening"
    /\ client_socket = "open"
    /\ windows = FALSE
    /\ interrupted = FALSE
    /\ conns = 1
    /\ failed_sessions = 0
    /\ log = <<Line("Client connected")>>
    /\ stream = << >>
    /\ peer_closes = FALSE
    /\ pos = 0
    /\ pc = "ratio"
    /\ exc = "None"
    /\ length_bytes = << >>
    /\ frame_length = 0
    /\ chunks = << >>
    /\ bytes_recd = 0
    /\ payload = << >>
    /\ frame = NoImage
    /\ has_red = FALSE
    /\ command = << >>
    /\ wire_out = << >>
    /\ msgs_started = 0
    /\ decode_calls = 0
    /\ decoded = 0
    /\ has_red_log = << >>
    /\ twin = NoTwin

\* red_ratio = ...; return red_ratio >= min_red_ratio, mask; command = ...
RatioStep ==
    /\ pc = "ratio"
    /\ has_red' = RatioReached(mask, config.min_red_area)
    /\ command' = CommandFor(has_red')
    /\ has_red_log' = Append(has_red_log, has_red')
    /\ pc' = "send"
    /\ UNCHANGED <<listenerVars, peerVars, exc, length_bytes, frame_length,
                   chunks, bytes_recd, payload, frame, mask, wire_out,
                   msgs_started, decode_calls, decoded, twin>>

RatioNext == RatioStep

RatioSpec == RatioInit /\ [][RatioNext]_vars

\* C13: the boolean of detect_red_regions is true exactly when the nonzero
\* share of the mask is at least the threshold, equality included: an empty
\* mask gives false for every positive threshold, a full mask gives true for
\* every threshold up to 1, and a mask with exactly 1% nonzero gives true at
\* 0.5% and at 1%, false at 2%.
C13_RatioComparison ==
    (pc = "send")
        => LET n == mask.nonzero
               s == mask.size
               t == config.min_red_area
           IN  /\ has_red <=> ~(n * t.den < t.num * s)
               /\ (n = 0 /\ t.num > 0) => ~has_red
               /\ (n = s /\ t.num <= t.den) => has_red
               /\ (100 * n = s /\ t = PerMille(5)) => has_red
               /\ (100 * n = s /\ t = PerMille(10)) => has_red
               /\ (100 * n = s /\ t = PerMille(20)) => ~has_red
               /\ command = IF has_red THEN COMMAND_MOVE_RED ELSE COMMAND_IDLE

C13_Witness ==
    /\ pc = "send"
    /\ mask = [size |-> 100, nonzero |-> 1]
    /\ config.min_red_area = PerMille(10)
    /\ has_red

\* C14: the detector runs only on a frame the decoder returned: it has run
\* at most once per decoded frame, and while the session is at the detector
\* or beyond, the payload decoded and the frame has pixels.  A message of
\* declared length 0 has an empty payload, read without any payload byte; it
\* waits for the decoder or has ended the session with the decoder's
\* exception, and the detector did not run for it.
C14_DetectorOnlyOnDecodedFrames ==
    /\ Len(has_red_log) <= decoded
    /\ decoded <= decode_calls
    /\ (lpc = "session" /\ pc \in {"detect", "display", "send"})
          => /\ Decodable(payload)
             /\ frame = ImDecode(payload)
             /\ frame # NoImage
             /\ frame.width * frame.height > 0
             /\ Len(has_red_log) \in {decoded - 1, decoded}
    /\ (lpc = "session" /\ Len(length_bytes) = 4 /\ frame_length = 0)
          => /\ payload = << >>
             /\ bytes_recd = 0
             /\ pos = FramedLength(stream, msgs_started)
             /\ pc \in {"decode", "raised"}
             /\ pc = "raised" => exc \in {"ValueError", "cv2.error"}
             /\ Len(has_red_log) = msgs_started - 1
             /\ Len(wire_out) = msgs_started - 1

C14_Witness ==
    /\ SessionOver
    /\ Len(length_bytes) = 4
    /\ frame_length = 0
    /\ ~peer_closes
    /\ pos = Len(stream)
    /\ exc = "cv2.error"
    /\ msgs_started = 2
    /\ Len(has_red_log) = 1

C17_ReadsStayInsideMessage ==
    [][ /\ (lpc = "session" /\ pc = "recv_len") => pos' - pos <= 4
        /\ (lpc = "session" /\ pc = "read_exact")
              => pos' - pos <= frame_length - bytes_recd
        /\ (lpc' = "session" /\ pc' = "recv_len")
              => /\ msgs_started' = Len(wire_out')
                 /\ pos' = FramedLength(stream', msgs_started')
        /\ (lpc' = "session" /\ pc' = "read_exact")
              => /\ bytes_recd' < frame_length'
                 /\ pos' = FramedLength(stream', msgs_started' - 1) + 4 + bytes_recd'
                 /\ length_bytes' = SubSeq(stream', pos' - bytes_recd' - 3,
                                           pos' - bytes_recd')
                 /\ Join(chunks') = SubSeq(stream', pos' - bytes_recd' + 1, pos')
        /\ (lpc' = "session" /\ pc' = "decode")
              => /\ pos' = FramedLength(stream', msgs_started')
                 /\ Len(payload') = frame_length'
                 /\ payload' = FramedPayloads(stream')[msgs_started']
      ]_vars

C17_Witness ==
    /\ lpc = "session"
    /\ pc = "read_exact"
    /\ msgs_started = 2
    /\ Len(wire_out) = 1
    /\ bytes_recd >= 1
    /\ Len(chunks) >= 2
    /\ pos < Len(stream)

\* the session ended in display_debug: cv2.error with no failed decode
DisplayFailed ==
    pc = "raised" /\ exc = "cv2.error" /\ decode_calls = decoded

\* C16: for the same connection, as long as display_debug has not failed, a
\* session with the display enabled has written the same buffers as the
\* session with the display disabled, has read as far, and is at the same
\* statement or ended with the same outcome; while it is in display_debug
\* the other is about to send the same command.
C16_DisplayDoesNotChangeProtocol ==
    (lpc = "session" /\ config.display /\ ~DisplayFailed)
        => /\ twin.wire_out = wire_out
           /\ twin.pos = pos
           /\ twin.command = command
           /\ IF pc = "display"
              THEN twin.pc = "send" /\ twin.exc = "None"
              ELSE /\ twin.pc = pc
                   /\ twin.exc = exc
                   /\ twin.client_socket = client_socket

C16_Witness ==
    /\ SessionOver
    /\ config.display
    /\ windows
    /\ pc = "returned"
    /\ Len(wire_out) = 2
    /\ twin.wire_out = wire_out
    /\ twin.pc = "returned"

=============================================================================
